---- MODULE Spec2Model ----
(***************************************************************************)
(* Model of the two demonstration scripts of the repository:               *)
(*   deutschJozsaAlgorithm.py  (dj_function, compile_circuit,              *)
(*                              dj_algorithm, dj_classical_algorithm)      *)
(*   deutschsAlgorithm.py      (deutsch_function, compile_circuit,         *)
(*                              deutsch_algorithm)                         *)
(* A circuit is a record [num_qubits, num_clbits, data]; data is the       *)
(* sequence of instructions.  The simulator backend keeps a vector of      *)
(* amplitudes indexed by basis state (bit q of the index is qubit q) and   *)
(* executes one instruction per step.  Amplitudes are kept un-normalised   *)
(* (every Hadamard drops its 1/sqrt(2) factor), which leaves unchanged     *)
(* which measurement outcomes have non-zero probability.                   *)
(***************************************************************************)
EXTENDS Integers, Sequences, FiniteSets, TLC

\* largest number of input lines passed to dj_function
MaxN == 2
\* largest case selector passed to deutsch_function (0 and MaxCase are outside the defined set)
MaxCase == 5

VARIABLES pc, num_qubits, case, f, kind, on_states, qc, ip, psi, creg,
          verdict, err, state, num_queries, outputs, result, queried, cverdict

vars == <<pc, num_qubits, case, f, kind, on_states, qc, ip, psi, creg,
          verdict, err, state, num_queries, outputs, result, queried, cverdict>>

----------------------------------------------------------------------------
\* Circuits and instructions

Instr(op, q, ctrl, c) == [op |-> op, q |-> q, ctrl |-> ctrl, c |-> c]

XGate(q) == Instr("x", q, {}, 0)
HGate(q) == Instr("h", q, {}, 0)
CXGate(c, t) == Instr("cx", t, {c}, 0)
MCXGate(ctrl, t) == Instr("mcx", t, ctrl, 0)
Barrier == Instr("barrier", 0, {}, 0)
MeasureInstr(q, c) == Instr("measure", q, {}, c)

QuantumCircuit(nq, nc) == [num_qubits |-> nq, num_clbits |-> nc, data |-> <<>>]

\* the value of a name that holds no circuit
NoCircuit == [num_qubits |-> 0, num_clbits |-> 0, data |-> <<>>]

append(circ, instr) == [circ EXCEPT !.data = Append(@, instr)]

compose(circ, other) == [circ EXCEPT !.data = @ \o other.data]

\* qc.h(range(k)) / qc.measure(range(k), range(k)): one instruction per line, in order
RECURSIVE h_range(_, _, _)
h_range(circ, q, k) ==
    IF q >= k THEN circ ELSE h_range(append(circ, HGate(q)), q + 1, k)

RECURSIVE measure_range(_, _, _)
measure_range(circ, q, k) ==
    IF q >= k THEN circ ELSE measure_range(append(circ, MeasureInstr(q, q)), q + 1, k)

----------------------------------------------------------------------------
\* f"{state:0b}": binary digits of k, most significant first, no padding

RECURSIVE ToBin(_)
ToBin(k) ==
    IF k < 2 THEN << IF k = 1 THEN "1" ELSE "0" >>
    ELSE Append(ToBin(k \div 2), IF k % 2 = 1 THEN "1" ELSE "0")

reversed(s) == [i \in 1..Len(s) |-> s[Len(s) + 1 - i]]

\* add_cx: an x on line `qubit` for every "1" at position `qubit` of the reversed string
RECURSIVE add_cx_from(_, _, _)
add_cx_from(circ, rev, qubit) ==
    IF qubit >= Len(rev) THEN circ
    ELSE add_cx_from(IF rev[qubit + 1] = "1" THEN append(circ, XGate(qubit)) ELSE circ,
                     rev, qubit + 1)

add_cx(circ, bit_string) == add_cx_from(circ, reversed(bit_string), 0)

----------------------------------------------------------------------------
\* dj_function

\* number of samples drawn for on_states
NumSamples(n) == (2^n) \div 2

\* np.random.choice(range(2**n), 2**n // 2, replace=False): every ordered
\* selection of distinct inputs
Samples(n) ==
    {s \in [1..NumSamples(n) -> 0..(2^n - 1)] :
        \A i, j \in 1..NumSamples(n) : i # j => s[i] # s[j]}

\* dj_block with the input lines not restored after the controlled flip
dj_block_no_undo(circ, n, st) ==
    LET c0 == append(circ, Barrier)
        c1 == add_cx(c0, ToBin(st))
    IN  append(c1, MCXGate(0..(n - 1), n))

\* body of the loop over on_states for one state
dj_block(circ, n, st) ==
    LET c0 == append(circ, Barrier)
        c1 == add_cx(c0, ToBin(st))
        c2 == append(c1, MCXGate(0..(n - 1), n))
    IN  add_cx(c2, ToBin(st))

RECURSIVE dj_blocks(_, _, _, _)
dj_blocks(circ, n, on, k) ==
    IF k > Len(on) THEN circ
    ELSE dj_blocks(dj_block(circ, n, on[k]), n, on, k + 1)

\* the circuit dj_function returns for the given outcomes of its random draws
dj_oracle(n, flip, const, on) ==
    LET q0 == QuantumCircuit(n + 1, 0)
        q1 == IF flip = 1 THEN append(q0, XGate(n)) ELSE q0
    IN  IF const = 1 THEN q1
        ELSE append(dj_blocks(q1, n, on, 1), Barrier)

----------------------------------------------------------------------------
\* deutsch_function

\* ValidCases with the last case left out
ValidCases_without_4 == {1, 2, 3}

ValidCases == {1, 2, 3, 4}

\* deutsch_oracle with case 3 built without its cx
deutsch_oracle_case3_no_cx(cs) ==
    LET f0 == QuantumCircuit(2, 0)
    IN  IF cs = 2 THEN append(f0, CXGate(0, 1))
        ELSE IF cs = 3 THEN append(f0, XGate(1))
        ELSE IF cs = 4 THEN append(f0, XGate(1))
        ELSE f0

deutsch_oracle(cs) ==
    LET f0 == QuantumCircuit(2, 0)
    IN  IF cs = 2 THEN append(f0, CXGate(0, 1))
        ELSE IF cs = 3 THEN append(append(f0, CXGate(0, 1)), XGate(1))
        ELSE IF cs = 4 THEN append(f0, XGate(1))
        ELSE f0

\* the message deutsch_function prints for the case
deutsch_kind(cs) == IF cs \in {2, 3} THEN "balanced" ELSE "constant"

----------------------------------------------------------------------------
\* compile_circuit

\* compile_circuit without the second layer of h on the input lines
compile_circuit_no_final_h(function) ==
    LET n  == function.num_qubits - 1
        c0 == QuantumCircuit(n + 1, n)
        c1 == append(c0, XGate(n))
        c2 == h_range(c1, 0, n + 1)
        c3 == compose(c2, function)
    IN  measure_range(c3, 0, n)

\* compile_circuit without the x that prepares the output line in |1>
compile_circuit_no_x(function) ==
    LET n  == function.num_qubits - 1
        c0 == QuantumCircuit(n + 1, n)
        c2 == h_range(c0, 0, n + 1)
        c3 == compose(c2, function)
        c4 == h_range(c3, 0, n)
    IN  measure_range(c4, 0, n)

\* deutschJozsaAlgorithm.compile_circuit
compile_circuit(function) ==
    LET n  == function.num_qubits - 1
        c0 == QuantumCircuit(n + 1, n)
        c1 == append(c0, XGate(n))
        c2 == h_range(c1, 0, n + 1)
        c3 == compose(c2, function)
        c4 == h_range(c3, 0, n)
    IN  measure_range(c4, 0, n)

\* deutschsAlgorithm.compile_circuit
deutsch_compile_circuit(function) ==
    LET n  == function.num_qubits - 1
        c0 == QuantumCircuit(n + 1, n)
        c1 == append(c0, XGate(n))
        c2 == h_range(c1, 0, n + 1)
        c3 == append(c2, Barrier)
        c4 == compose(c3, function)
        c5 == append(c4, Barrier)
        c6 == h_range(c5, 0, n)
    IN  measure_range(c6, 0, n)

----------------------------------------------------------------------------
\* Simulator backend

Bit(i, q) == (i \div (2^q)) % 2

FlipBit(i, q) == IF Bit(i, q) = 1 THEN i - 2^q ELSE i + 2^q

\* all lines in |0>
ZeroState(nq) == [i \in 0..(2^nq - 1) |-> IF i = 0 THEN 1 ELSE 0]

ZeroBits(nc) == [i \in 0..(nc - 1) |-> 0]

ApplyX(v, q) == [i \in DOMAIN v |-> v[FlipBit(i, q)]]

ApplyH(v, q) ==
    [i \in DOMAIN v |->
        IF Bit(i, q) = 0 THEN v[i] + v[FlipBit(i, q)]
        ELSE v[FlipBit(i, q)] - v[i]]

ApplyMCX(v, ctrl, t) ==
    [i \in DOMAIN v |->
        IF \A c \in ctrl : Bit(i, c) = 1 THEN v[FlipBit(i, t)] ELSE v[i]]

ApplyGate(v, g) ==
    IF g.op = "x" THEN ApplyX(v, g.q)
    ELSE IF g.op = "h" THEN ApplyH(v, g.q)
    ELSE IF g.op \in {"cx", "mcx"} THEN ApplyMCX(v, g.ctrl, g.q)
    ELSE v

\* outcome b of measuring line q has non-zero probability
Possible(v, q, b) == \E i \in DOMAIN v : Bit(i, q) = b /\ v[i] # 0

\* projective measurement: state after outcome b on line q
Collapse(v, q, b) == [i \in DOMAIN v |-> IF Bit(i, q) = b THEN v[i] ELSE 0]

\* result.get_memory()[0]: the classical bits as a string, highest index leftmost
Memory(bits, nc) == [i \in 1..nc |-> IF bits[nc - i] = 1 THEN "1" ELSE "0"]

----------------------------------------------------------------------------
\* Decision rules

\* "1" in measurements[0]
dj_verdict(mem) == IF \E i \in 1..Len(mem) : mem[i] = "1" THEN "balanced" ELSE "constant"

\* measurements[0] == "0"
deutsch_verdict(mem) == IF mem = <<"0">> THEN "constant" ELSE "balanced"

\* try_states over every input
try_states_all(n) == 0..(2^n - 1)

\* try_states one input short
try_states_short(n) == 0..(2^(n - 1) - 1)

\* range(2**(n-1)+1)
try_states(n) == 0..(2^(n - 1))

\* the circuit of one classical query
classical_query(function, st) ==
    LET n  == function.num_qubits - 1
        c0 == QuantumCircuit(n + 1, 1)
        c1 == add_cx(c0, ToBin(st))
        c2 == compose(c1, function)
    IN  append(c2, MeasureInstr(n, 0))

\* differs that only looks once two outputs are recorded
differs_after_two(outs, res) == Len(outs) >= 2 /\ ~(\E i \in 1..Len(outs) : outs[i] = res)

\* the test that ends the classical loop
differs(outs, res) == outs # <<>> /\ ~(\E i \in 1..Len(outs) : outs[i] = res)

----------------------------------------------------------------------------
\* State machine

Init ==
    /\ pc = "start"
    /\ num_qubits = 0
    /\ case = 0
    /\ f = NoCircuit
    /\ kind = ""
    /\ on_states = <<>>
    /\ qc = NoCircuit
    /\ ip = 1
    /\ psi = ZeroState(0)
    /\ creg = ZeroBits(0)
    /\ verdict = ""
    /\ err = ""
    /\ state = 0
    /\ num_queries = 0
    /\ outputs = <<>>
    /\ result = ""
    /\ queried = <<>>
    /\ cverdict = <<"", 0>>

\* start the backend on a circuit
Load(circ) ==
    /\ qc' = circ
    /\ ip' = 1
    /\ psi' = ZeroState(circ.num_qubits)
    /\ creg' = ZeroBits(circ.num_clbits)

\* f = dj_function(n)
DjFunction ==
    /\ pc = "start"
    /\ \E n \in 0..MaxN, flip \in {0, 1}, const \in {0, 1} :
         \E on \in (IF const = 1 THEN {<<>>} ELSE Samples(n)) :
            /\ num_qubits' = n
            /\ f' = dj_oracle(n, flip, const, on)
            /\ kind' = IF const = 1 THEN "constant" ELSE "balanced"
            /\ on_states' = on
    /\ pc' = "dj_generated"
    /\ UNCHANGED <<case, qc, ip, psi, creg, verdict, err, state, num_queries,
                   outputs, result, queried, cverdict>>

\* dj_algorithm: compile and hand the circuit to the backend.  The run is
\* followed for n >= 1 only: with n = 0 dj_classical_algorithm stops on
\* range(2**(-1)+1), a float, before its first query.
DjCompile ==
    /\ pc = "dj_generated"
    /\ num_qubits >= 1
    /\ Load(compile_circuit(f))
    /\ pc' = "dj_run"
    /\ UNCHANGED <<num_qubits, case, f, kind, on_states, verdict, err, state,
                   num_queries, outputs, result, queried, cverdict>>

\* backend: one gate or barrier
SimGate ==
    /\ pc \in {"dj_run", "cl_run", "de_run"}
    /\ ip <= Len(qc.data)
    /\ qc.data[ip].op # "measure"
    /\ psi' = ApplyGate(psi, qc.data[ip])
    /\ ip' = ip + 1
    /\ UNCHANGED <<pc, num_qubits, case, f, kind, on_states, qc, creg, verdict, err,
                   state, num_queries, outputs, result, queried, cverdict>>

\* backend: one measurement, sampled among the outcomes of non-zero probability
SimMeasure ==
    /\ pc \in {"dj_run", "cl_run", "de_run"}
    /\ ip <= Len(qc.data)
    /\ qc.data[ip].op = "measure"
    /\ \E b \in {0, 1} :
         /\ Possible(psi, qc.data[ip].q, b)
         /\ psi' = Collapse(psi, qc.data[ip].q, b)
         /\ creg' = [creg EXCEPT ![qc.data[ip].c] = b]
    /\ ip' = ip + 1
    /\ UNCHANGED <<pc, num_qubits, case, f, kind, on_states, qc, verdict, err,
                   state, num_queries, outputs, result, queried, cverdict>>

\* dj_algorithm: the verdict from the one sampled outcome
DjDecide ==
    /\ pc = "dj_run"
    /\ ip > Len(qc.data)
    /\ verdict' = dj_verdict(Memory(creg, qc.num_clbits))
    /\ pc' = "dj_decided"
    /\ UNCHANGED <<num_qubits, case, f, kind, on_states, qc, ip, psi, creg, err,
                   state, num_queries, outputs, result, queried, cverdict>>

\* dj_classical_algorithm: entry
ClassicalStart ==
    /\ pc = "dj_decided"
    /\ state' = 0
    /\ num_queries' = 0
    /\ outputs' = <<>>
    /\ pc' = "cl_loop"
    /\ UNCHANGED <<num_qubits, case, f, kind, on_states, qc, ip, psi, creg, verdict,
                   err, result, queried, cverdict>>

\* dj_classical_algorithm: loop body up to the backend call
ClassicalQuery ==
    /\ pc = "cl_loop"
    /\ state \in try_states(f.num_qubits - 1)
    /\ Load(classical_query(f, state))
    /\ num_queries' = num_queries + 1
    /\ queried' = Append(queried, state)
    /\ pc' = "cl_run"
    /\ UNCHANGED <<num_qubits, case, f, kind, on_states, verdict, err, state,
                   outputs, result, cverdict>>

\* dj_classical_algorithm: compare the output with the recorded ones
ClassicalCheck ==
    /\ pc = "cl_run"
    /\ ip > Len(qc.data)
    /\ LET res == Memory(creg, qc.num_clbits) IN
         /\ result' = res
         /\ IF differs(outputs, res)
            THEN /\ cverdict' = <<"balanced", num_queries>>
                 /\ pc' = "done"
                 /\ UNCHANGED <<outputs, state>>
            ELSE /\ outputs' = Append(outputs, res)
                 /\ state' = state + 1
                 /\ pc' = "cl_loop"
                 /\ UNCHANGED cverdict
    /\ UNCHANGED <<num_qubits, case, f, kind, on_states, qc, ip, psi, creg, verdict,
                   err, num_queries, queried>>

\* dj_classical_algorithm: the else clause of the loop
ClassicalElse ==
    /\ pc = "cl_loop"
    /\ state \notin try_states(f.num_qubits - 1)
    /\ cverdict' = <<"constant", num_queries>>
    /\ pc' = "done"
    /\ UNCHANGED <<num_qubits, case, f, kind, on_states, qc, ip, psi, creg, verdict,
                   err, state, num_queries, outputs, result, queried>>

\* f = deutsch_function(cs)
DeutschFunction ==
    /\ pc = "start"
    /\ \E cs \in 0..MaxCase :
         /\ case' = cs
         /\ IF cs \notin ValidCases
            THEN /\ err' = "ValueError"
                 /\ pc' = "raised"
                 /\ UNCHANGED <<f, kind>>
            ELSE /\ f' = deutsch_oracle(cs)
                 /\ kind' = deutsch_kind(cs)
                 /\ pc' = "de_generated"
                 /\ UNCHANGED err
    /\ UNCHANGED <<num_qubits, on_states, qc, ip, psi, creg, verdict, state,
                   num_queries, outputs, result, queried, cverdict>>

\* deutsch_algorithm: compile and hand the circuit to the backend
DeutschCompile ==
    /\ pc = "de_generated"
    /\ Load(deutsch_compile_circuit(f))
    /\ pc' = "de_run"
    /\ UNCHANGED <<num_qubits, case, f, kind, on_states, verdict, err, state,
                   num_queries, outputs, result, queried, cverdict>>

\* deutsch_algorithm: the verdict from the one sampled outcome
DeutschDecide ==
    /\ pc = "de_run"
    /\ ip > Len(qc.data)
    /\ verdict' = deutsch_verdict(Memory(creg, qc.num_clbits))
    /\ pc' = "de_decided"
    /\ UNCHANGED <<num_qubits, case, f, kind, on_states, qc, ip, psi, creg, err,
                   state, num_queries, outputs, result, queried, cverdict>>

Next ==
    \/ DjFunction
    \/ DjCompile
    \/ SimGate
    \/ SimMeasure
    \/ DjDecide
    \/ ClassicalStart
    \/ ClassicalQuery
    \/ ClassicalCheck
    \/ ClassicalElse
    \/ DeutschFunction
    \/ DeutschCompile
    \/ DeutschDecide

Spec == Init /\ [][Next]_vars

----------------------------------------------------------------------------
\* The function an oracle computes on classical inputs

\* the backend run to the end on a circuit without measurements
RECURSIVE RunGates(_, _, _)
RunGates(v, data, k) ==
    IF k > Len(data) THEN v ELSE RunGates(ApplyGate(v, data[k]), data, k + 1)

\* basis state with index x
Basis(nq, x) == [i \in 0..(2^nq - 1) |-> IF i = x THEN 1 ELSE 0]

\* index of the basis state that data maps basis state x to
BasisImage(nq, data, x) ==
    CHOOSE i \in 0..(2^nq - 1) : RunGates(Basis(nq, x), data, 1)[i] # 0

\* output line after the oracle is applied to input x with the output line 0
OracleOutput(circ, x) ==
    Bit(BasisImage(circ.num_qubits, circ.data, x), circ.num_qubits - 1)

Inputs(n) == 0..(2^n - 1)

QueryBound(n) == 2^(n - 1) + 1

----------------------------------------------------------------------------
\* Claims

\* C1: for a CONSTANT oracle of dj_function (n >= 1, with or without the
\* output flip) dj_algorithm returns "constant" for every measurement
\* outcome of non-zero probability.
C1_ConstantQuantum ==
    (pc = "dj_decided" /\ kind = "constant") =>
        /\ verdict = "constant"
        /\ \A i \in 0..(num_qubits - 1) : creg[i] = 0

C1_Witness ==
    /\ pc = "dj_decided"
    /\ kind = "constant"
    /\ num_qubits >= 2
    /\ f.data # <<>>
    /\ verdict = "constant"

\* C2: for a BALANCED oracle of dj_function (every on_states, either output
\* flip) dj_algorithm returns "balanced" for every measurement outcome of
\* non-zero probability: the all-zero readout has probability zero.
C2_BalancedQuantum ==
    /\ (pc = "dj_decided" /\ kind = "balanced") =>
          /\ verdict = "balanced"
          /\ \E i \in 0..(num_qubits - 1) : creg[i] = 1
    /\ (pc = "dj_run" /\ kind = "balanced" /\ ip = Len(qc.data) - num_qubits + 1) =>
          /\ psi[0] = 0
          /\ psi[2^num_qubits] = 0

C2_Witness ==
    /\ pc = "dj_decided"
    /\ kind = "balanced"
    /\ num_qubits >= 2
    /\ f.data[1].op = "x"
    /\ verdict = "balanced"

\* C3: the function computed by a BALANCED oracle of dj_function is 1 for
\* exactly 2^n / 2 of the 2^n inputs and 0 for the other half, with or
\* without the output flip.
C3_BalancedHalf ==
    (pc = "dj_generated" /\ kind = "balanced" /\ num_qubits >= 1) =>
        /\ Cardinality({x \in Inputs(num_qubits) : OracleOutput(f, x) = 1})
              = (2^num_qubits) \div 2
        /\ Cardinality({x \in Inputs(num_qubits) : OracleOutput(f, x) = 0})
              = (2^num_qubits) \div 2

C3_Witness ==
    /\ pc = "dj_generated"
    /\ kind = "balanced"
    /\ num_qubits >= 2
    /\ f.data[1].op = "x"
    /\ Cardinality({x \in Inputs(num_qubits) : OracleOutput(f, x) = 1}) = 2^(num_qubits - 1)

\* C4: on a CONSTANT oracle dj_classical_algorithm makes exactly 2^(n-1)+1
\* queries and returns ("constant", 2^(n-1)+1).
C4_ClassicalConstant ==
    (pc = "done" /\ kind = "constant") =>
        /\ cverdict = <<"constant", QueryBound(num_qubits)>>
        /\ num_queries = QueryBound(num_qubits)
        /\ Len(queried) = QueryBound(num_qubits)

C4_Witness ==
    /\ pc = "done"
    /\ kind = "constant"
    /\ num_qubits >= 2
    /\ cverdict = <<"constant", QueryBound(num_qubits)>>

\* C5: on a BALANCED oracle dj_classical_algorithm makes at most 2^(n-1)+1
\* queries and returns "balanced"; it never falls through to "constant".
C5_ClassicalBalanced ==
    /\ (kind = "balanced" /\ pc \in {"cl_loop", "cl_run", "done"}) =>
          /\ num_queries <= QueryBound(num_qubits)
          /\ Len(queried) <= QueryBound(num_qubits)
    /\ (kind = "balanced" /\ pc = "done") =>
          /\ cverdict[1] = "balanced"
          /\ cverdict[2] <= QueryBound(num_qubits)

C5_Witness ==
    /\ pc = "done"
    /\ kind = "balanced"
    /\ num_qubits >= 2
    /\ cverdict = <<"balanced", QueryBound(num_qubits)>>

\* C6: deutsch_algorithm returns "constant" for the oracles of cases 1 and 4
\* and "balanced" for those of cases 2 and 3, for every measurement outcome
\* of non-zero probability.
C6_DeutschVerdicts ==
    pc = "de_decided" =>
        /\ case \in {1, 4} => verdict = "constant"
        /\ case \in {2, 3} => verdict = "balanced"

C6_Witness ==
    /\ pc = "de_decided"
    /\ case = 3
    /\ verdict = "balanced"

\* C7: dj_function with n < 1 is reported as an error: for every outcome of
\* the random draws no oracle is returned.
C7_InvalidParameter ==
    ~(pc = "dj_generated" /\ num_qubits < 1 /\ f # NoCircuit)

\* C8: deutsch_function with a case outside {1, 2, 3, 4} raises ValueError
\* before any circuit is built and returns no oracle; for every case in
\* {1, 2, 3, 4} it returns an oracle without error.
C8_CaseValidation ==
    (pc \in {"raised", "de_generated", "de_run", "de_decided"}) =>
        IF case \in {1, 2, 3, 4}
        THEN pc # "raised" /\ err = "" /\ f # NoCircuit /\ f.num_qubits = 2
        ELSE pc = "raised" /\ err = "ValueError" /\ f = NoCircuit /\ qc = NoCircuit

C8_Witness ==
    /\ pc = "raised"
    /\ case > 4
    /\ err = "ValueError"

\* C9: for each element of on_states the block add_cx / mcx / add_cx flips
\* the output line if and only if the n input lines equal that pattern, and
\* leaves the input lines as they were.
C9_BlockFlipsOnPattern ==
    (pc = "dj_generated" /\ kind = "balanced") =>
        \A k \in 1..Len(on_states) :
            \A i \in 0..(2^(num_qubits + 1) - 1) :
                BasisImage(num_qubits + 1,
                           dj_block(QuantumCircuit(num_qubits + 1, 0),
                                    num_qubits, on_states[k]).data, i)
                  = IF i % (2^num_qubits) = on_states[k]
                    THEN FlipBit(i, num_qubits) ELSE i

\* C10: dj_classical_algorithm queries the inputs 0, 1, 2, ... in increasing
\* order, one query per input, and stops at the first query whose output
\* differs from an earlier one: the returned count is the position of that
\* query, and no input is queried after it.
C10_FirstDiffering ==
    /\ pc \in {"cl_loop", "cl_run", "done"} =>
          /\ Len(queried) = num_queries
          /\ \A i \in 1..Len(queried) : queried[i] = i - 1
    /\ pc = "cl_loop" =>
          \A q, r \in 1..Len(queried) :
              OracleOutput(f, queried[q]) = OracleOutput(f, queried[r])
    /\ (pc = "done" /\ cverdict[1] = "balanced") =>
          LET p == cverdict[2] IN
            /\ p = num_queries
            /\ \E q \in 1..(p - 1) : OracleOutput(f, q - 1) # OracleOutput(f, p - 1)
            /\ \A r \in 1..(p - 1) : \A q \in 1..(r - 1) :
                  OracleOutput(f, q - 1) = OracleOutput(f, r - 1)

C10_Witness ==
    /\ pc = "done"
    /\ num_qubits >= 2
    /\ cverdict = <<"balanced", 2>>
    /\ queried = <<0, 1>>

====
